---- MODULE Spec2Model ----
(***************************************************************************)
(* InsightLens: the paragraph-aware text chunker (text_chunker.py), the    *)
(* vector store manager (vector_store_manager.py) and the command flows of *)
(* main.py that compose them.                                              *)
(*                                                                         *)
(* A text is a sequence of one-character strings.  The chunker is a pure   *)
(* function and is modelled as the operator simple_chunker; the store is a *)
(* state machine over named collections.                                   *)
(***************************************************************************)
EXTENDS Integers, Sequences, FiniteSets, TLC

VARIABLES
    APP_STATE,      \* main.py APP_STATE: chunk_size, chunk_overlap, top_k_retrieval
    text,           \* the raw text handed to simple_chunker
    cpc,            \* chunker call: "idle", "returned" or "raised" (ValueError)
    cfg_result,     \* what the last configure command answered
    all_chunks,     \* simple_chunker's all_chunks when it ended
    chunks,         \* simple_chunker's return value (the filtered list)
    cont            \* per returned chunk: is it a later window of a hard split

chunkVars == <<APP_STATE, text, cpc, cfg_result, all_chunks, chunks, cont>>

VARIABLES
    store,          \* the persistent store: collection name -> [active, records]
    uuid_next,      \* how many uuid4 ids have been issued
    last,           \* the store manager call in progress: its inputs and outcome
    success_rets    \* what add_documents_to_store has returned after writing

storeVars == <<store, uuid_next, last, success_rets>>

VARIABLES
    cmd             \* the command of main.py in progress: its inputs and outcome

vars == <<chunkVars, storeVars, cmd>>

----------------------------------------------------------------------------
(* Bounds of the model *)

MaxTextLen == 5        \* raw texts over the whole alphabet
MaxFlatLen == 9        \* one-line texts over a letter and the space
MaxParas == 3          \* texts built from whole paragraphs
MaxChunkSize == 4      \* chunk sizes configure can set
MaxOverlap == 4        \* chunk overlaps configure can set
MaxBatch == 3          \* chunks in one add
MaxUuid == 6           \* uuid4 ids issued in one behaviour
MaxTopK == 4           \* top_k of a query

(* Program constants *)

DefaultChunkSize == 1000
DefaultChunkOverlap == 150
DefaultTopK == 3

----------------------------------------------------------------------------
(* Characters and texts *)

SP == " "
NL == "\n"
Alphabet == {"a", "b", SP, NL}

Min(a, b) == IF a < b THEN a ELSE b

SeqsUpTo(S, n) == UNION {[1..k -> S] : k \in 0..n}

\* str.isspace for one character
IsWs(c) == c \in {SP, NL}

\* bool(s.strip()): s holds a character that is not whitespace
NonBlank(s) == \E i \in 1..Len(s) : ~IsWs(s[i])

\* s.strip()
Strip(s) ==
    LET keep == {i \in 1..Len(s) : ~IsWs(s[i])}
    IN  IF keep = {} THEN << >>
        ELSE SubSeq(s, CHOOSE i \in keep : \A j \in keep : i <= j,
                       CHOOSE i \in keep : \A j \in keep : i >= j)

\* s.split('\n\n'): cut at the first separator, go on with the rest
RECURSIVE Split(_)
Split(s) ==
    LET seps == {i \in 1..(Len(s) - 1) : s[i] = NL /\ s[i + 1] = NL}
    IN  IF seps = {} THEN <<s>>
        ELSE LET i == CHOOSE k \in seps : \A j \in seps : k <= j
             IN  <<SubSeq(s, 1, i - 1)>> \o Split(SubSeq(s, i + 2, Len(s)))

\* [p.strip() for p in text.split('\n\n') if p.strip()]
Paragraphs(t) ==
    LET parts == Split(t)
        stripped == [i \in 1..Len(parts) |-> Strip(parts[i])]
    IN  SelectSeq(stripped, LAMBDA p : p # << >>)

\* s[i:j] for 0 <= i
Slice(s, i, j) == SubSeq(s, i + 1, Min(j, Len(s)))

\* list(range(0, stop, step)) for step # 0; a negative step gives no element
Range(stop, step) ==
    IF step > 0 /\ stop > 0
    THEN [k \in 1..((stop + step - 1) \div step) |-> (k - 1) * step]
    ELSE << >>

----------------------------------------------------------------------------
(* simple_chunker *)

\* HardSplit with the overlap forgotten in the stride
HardSplitNoOverlap(buf, chunk_size, chunk_overlap) ==
    LET starts == Range(Len(buf), chunk_size)
    IN  [k \in 1..Len(starts) |-> Slice(buf, starts[k], starts[k] + chunk_size)]

\* HardSplit with the operands of the stride swapped
HardSplitSwapped(buf, chunk_size, chunk_overlap) ==
    LET starts == Range(Len(buf), chunk_overlap - chunk_size)
    IN  [k \in 1..Len(starts) |-> Slice(buf, starts[k], starts[k] + chunk_size)]

\* HardSplit with every window one character short
HardSplitShort(buf, chunk_size, chunk_overlap) ==
    LET starts == Range(Len(buf), chunk_size - chunk_overlap)
    IN  [k \in 1..Len(starts) |-> Slice(buf, starts[k], starts[k] + chunk_size - 1)]

\* for i in range(0, len(buf), chunk_size - chunk_overlap):
\*     all_chunks.append(buf[i:i + chunk_size])
HardSplit(buf, chunk_size, chunk_overlap) ==
    LET starts == Range(Len(buf), chunk_size - chunk_overlap)
    IN  [k \in 1..Len(starts) |-> Slice(buf, starts[k], starts[k] + chunk_size)]

\* range() raises ValueError when its step is zero
SplitRaises(buf, chunk_size, chunk_overlap) ==
    Len(buf) > chunk_size /\ chunk_size - chunk_overlap = 0

\* the flush of a non-empty buffer: hard-split when oversized, else one chunk
Flush(buf, chunk_size, chunk_overlap) ==
    IF Len(buf) > chunk_size
    THEN HardSplit(buf, chunk_size, chunk_overlap)
    ELSE <<buf>>

\* Bookkeeping beside all_chunks: entry k of a flush is marked TRUE when it is a
\* hard-split window that follows another window of the same buffer.
Marks(emitted, oversized) == [k \in 1..Len(emitted) |-> oversized /\ k > 1]

\* all_chunks after the appends of one flush of buf; st = [cur, all, cont, raised]
Emit(st, buf, chunk_size, chunk_overlap) ==
    LET emitted == Flush(buf, chunk_size, chunk_overlap)
    IN  [st EXCEPT !.all = st.all \o emitted,
                   !.cont = st.cont \o Marks(emitted, Len(buf) > chunk_size)]

\* one iteration of "for paragraph in paragraphs"
LoopBody(st, paragraph, chunk_size, chunk_overlap) ==
    IF st.raised THEN st
    ELSE IF Len(st.cur) + Len(paragraph) + 1 < chunk_size
    THEN [st EXCEPT !.cur = st.cur \o (IF st.cur # << >> THEN <<SP>> ELSE << >>)
                                   \o paragraph]
    ELSE IF st.cur # << >> /\ SplitRaises(st.cur, chunk_size, chunk_overlap)
    THEN [st EXCEPT !.raised = TRUE]
    ELSE LET st1 == IF st.cur # << >>
                    THEN Emit(st, st.cur, chunk_size, chunk_overlap)
                    ELSE st
             st2 == [st1 EXCEPT !.cur = paragraph]
         IN  IF Len(st2.cur) > chunk_size
             THEN IF SplitRaises(st2.cur, chunk_size, chunk_overlap)
                  THEN [st2 EXCEPT !.raised = TRUE]
                  ELSE [Emit(st2, st2.cur, chunk_size, chunk_overlap) EXCEPT !.cur = << >>]
             ELSE st2

RECURSIVE Loop(_, _, _, _, _)
Loop(st, paragraphs, k, chunk_size, chunk_overlap) ==
    IF k > Len(paragraphs) THEN st
    ELSE Loop(LoopBody(st, paragraphs[k], chunk_size, chunk_overlap),
              paragraphs, k + 1, chunk_size, chunk_overlap)

\* the function up to its return statement: all_chunks, and whether range()
\* raised ValueError on the way
RawChunks(t, chunk_size, chunk_overlap) ==
    LET st0 == [cur |-> << >>, all |-> << >>, cont |-> << >>, raised |-> FALSE]
    IN  IF t = << >> THEN st0
        ELSE LET st == Loop(st0, Paragraphs(t), 1, chunk_size, chunk_overlap)
             IN  IF st.raised \/ st.cur = << >> THEN st
                 ELSE IF SplitRaises(st.cur, chunk_size, chunk_overlap)
                 THEN [st EXCEPT !.raised = TRUE]
                 ELSE Emit(st, st.cur, chunk_size, chunk_overlap)

\* DropBlank testing "if chunk" in place of "if chunk.strip()"
DropEmptyOnly(cs) == SelectSeq(cs, LAMBDA c : c # << >>)

\* return [chunk for chunk in all_chunks if chunk.strip()]
DropBlank(cs) == SelectSeq(cs, NonBlank)

\* the marks of the chunks DropBlank keeps
KeptMarks(cs, marks) ==
    LET kept == SelectSeq([i \in 1..Len(cs) |-> i], LAMBDA i : DropBlank(<<cs[i]>>) # << >>)
    IN  [j \in 1..Len(kept) |-> marks[kept[j]]]

simple_chunker(t, chunk_size, chunk_overlap) ==
    LET r == RawChunks(t, chunk_size, chunk_overlap)
    IN  [raised |-> r.raised,
         all_chunks |-> r.all,
         chunks |-> IF r.raised THEN << >> ELSE DropBlank(r.all),
         cont |-> IF r.raised THEN << >> ELSE KeptMarks(r.all, r.cont)]

----------------------------------------------------------------------------
(* The texts the chunker is run on *)

RawTexts == SeqsUpTo(Alphabet, MaxTextLen)
FlatTexts == SeqsUpTo({"a", SP}, MaxFlatLen)

Words == {<<"a">>, <<"b", "a">>, <<"a", "b", "b">>}

RECURSIVE JoinParas(_)
JoinParas(ps) ==
    IF ps = << >> THEN << >>
    ELSE IF Len(ps) = 1 THEN ps[1]
    ELSE ps[1] \o <<NL, NL>> \o JoinParas(Tail(ps))

ParaTexts == {JoinParas(ps) : ps \in SeqsUpTo(Words, MaxParas)}

Texts == RawTexts \cup FlatTexts \cup ParaTexts

\* a valid configuration: chunk_size > 0 and 0 <= chunk_overlap < chunk_size
ValidConfig(size, overlap) == size > 0 /\ 0 <= overlap /\ overlap < size

----------------------------------------------------------------------------
(* The vector store: values *)

DEFAULT_COLLECTION_NAME == "insightlens_documents"
Names == {DEFAULT_COLLECTION_NAME, "papers"}

\* a value that may be None
None == [none |-> TRUE, val |-> << >>]
Some(v) == [none |-> FALSE, val |-> v]

\* ids: the caller's (f"{filename}_{i}" in load) and uuid4's
DocId(i) == [kind |-> "doc", n |-> i]
Uuid(k) == [kind |-> "uuid", n |-> k]

\* the content of chunk i in version v of the document
Versions == {1, 2}
Doc(v, i) == <<v, i>>
Emb(v, i) == 2 * i + v
Meta(v, i) == {<<"chunk_index", i - 1>>, <<"source_document", v>>}
EmptyMeta == {}

Absent == [active |-> FALSE, records |-> {}]
Fresh == [active |-> TRUE, records |-> {}]

Idle == [op |-> "none"]

\* no command of main.py is running
NoCmd == [op |-> "none"]

\* the storage call of an operation that fails, if any
AddFailures == {"none", "get", "create", "add", "count"}
QueryFailures == {"none", "get", "create", "count", "query"}
ResetFailures == {"none", "delete"}

IdsOf(records) == {r.id : r \in records}

\* the (chunk_size, chunk_overlap) pairs the configure command is given
CliConfigs == {<<2, 0>>, <<2, 1>>, <<1, 1>>}

----------------------------------------------------------------------------
(* The vector store: operations *)

\* get_or_create_collection that only gets: nothing is created
GetOnly(st, name, f) ==
    IF st[name].active /\ f # "get"
    THEN [raised |-> FALSE, store |-> st]
    ELSE [raised |-> TRUE, store |-> st]

\* get_or_create_collection: get_collection, and create_collection when that
\* raises (not found, or a storage error); an exception of create_collection
\* (storage error, or the collection exists after all) reaches the caller
get_or_create_collection(st, name, f) ==
    IF st[name].active /\ f # "get"
    THEN [raised |-> FALSE, store |-> st]
    ELSE IF f = "create" \/ st[name].active
    THEN [raised |-> TRUE, store |-> st]
    ELSE [raised |-> FALSE, store |-> [st EXCEPT ![name] = Fresh]]

\* collection.add of the index: a record whose id exists already is left as it
\* is and the new one is ignored
IndexAdd(records, batch) ==
    records \cup {b \in batch : b.id \notin IdsOf(records)}

\* the ids of a batch repeat one: the index refuses the whole batch
HasDuplicate(ids) == \E i, j \in 1..Len(ids) : i < j /\ ids[i] = ids[j]

\* doc_ids after "if doc_ids is None ... elif len(doc_ids) != len(chunks)",
\* with the caller's ids kept whatever their number
NormalIdsKeep(doc_ids, n, next) ==
    IF doc_ids.none THEN [i \in 1..n |-> Uuid(next + i)]
    ELSE [i \in 1..n |-> IF i <= Len(doc_ids.val) THEN doc_ids.val[i] ELSE Uuid(next + i)]

\* doc_ids after "if doc_ids is None ... elif len(doc_ids) != len(chunks)"
NormalIds(doc_ids, n, next) ==
    IF doc_ids.none \/ Len(doc_ids.val) # n
    THEN [i \in 1..n |-> Uuid(next + i)]
    ELSE doc_ids.val

\* metadatas after "if metadatas is None" and the padding and truncation
NormalMetas(metadatas, n) ==
    LET given == IF metadatas.none THEN [i \in 1..n |-> EmptyMeta] ELSE metadatas.val
    IN  IF Len(given) # n
        THEN [i \in 1..n |-> IF i <= Len(given) THEN given[i] ELSE EmptyMeta]
        ELSE given

\* add_documents_to_store(name, chunks, embeddings, metadatas, doc_ids)
add_documents_to_store(name, cs, embeddings, metadatas, doc_ids, f) ==
    LET n == Len(cs)
        call == [op |-> "add", name |-> name, f |-> f, n |-> n, m |-> Len(embeddings),
                 chunks |-> cs, embeddings |-> embeddings,
                 metadatas |-> metadatas, doc_ids |-> doc_ids, ret |-> None]
        goc == get_or_create_collection(store, name, f)
        regen == doc_ids.none \/ Len(doc_ids.val) # n
        ids == NormalIds(doc_ids, n, uuid_next)
        metas == NormalMetas(metadatas, n)
        batch == {[id |-> ids[i], embedding |-> embeddings[i], document |-> cs[i],
                   metadata |-> metas[i]] : i \in 1..n}
        none == [w_ids |-> << >>, w_metas |-> << >>, before |-> store[name]]
        write == [w_ids |-> ids, w_metas |-> metas, before |-> store[name]]
    IN  /\ last = Idle
        /\ IF cs = << >> \/ embeddings = << >> \/ Len(cs) # Len(embeddings)
           THEN \* print("ERROR: ..."); return
                /\ last' = call @@ none @@ [outcome |-> "invalid"]
                /\ UNCHANGED <<store, uuid_next, success_rets>>
           ELSE IF goc.raised
           THEN \* the exception of create_collection leaves the function
                /\ last' = call @@ none @@ [outcome |-> "exception"]
                /\ UNCHANGED <<store, uuid_next, success_rets>>
           ELSE /\ regen => uuid_next + n <= MaxUuid
                /\ uuid_next' = IF regen THEN uuid_next + n ELSE uuid_next
                /\ IF f = "add" \/ HasDuplicate(ids)
                   THEN \* except: print("ERROR: Error adding/updating ...")
                        /\ store' = goc.store
                        /\ last' = call @@ write @@ [outcome |-> "index_error"]
                        /\ UNCHANGED success_rets
                   ELSE /\ store' = [goc.store EXCEPT
                                       ![name].records = IndexAdd(@, batch)]
                        /\ last' = call @@ write @@
                               [outcome |-> IF f = "count" THEN "written_then_error"
                                            ELSE "written"]
                        /\ success_rets' = IF f = "count" THEN success_rets
                                           ELSE success_rets \cup {call.ret}
    /\ UNCHANGED chunkVars

\* reset_collection(name): delete_collection, every exception swallowed
reset_collection(name, f) ==
    /\ last = Idle
    /\ IF store[name].active /\ f # "delete"
       THEN /\ store' = [store EXCEPT ![name] = Absent]
            /\ last' = [op |-> "reset", name |-> name, f |-> f, ret |-> None,
                        outcome |-> "deleted", before |-> store[name]]
       ELSE /\ store' = store
            /\ last' = [op |-> "reset", name |-> name, f |-> f, ret |-> None,
                        outcome |-> "not_deleted", before |-> store[name]]
    /\ UNCHANGED <<uuid_next, success_rets, chunkVars>>

\* distance of the index between two embeddings
Distance(e, q) == IF e >= q THEN e - q ELSE q - e

\* the answers collection.query may give for n_results = k: k distinct records,
\* closest first, none of the records left out being closer than one taken
Rankings(records, q, k) ==
    {r \in [1..k -> records] :
        /\ \A i, j \in 1..k : i < j =>
               /\ r[i] # r[j]
               /\ Distance(r[i].embedding, q) <= Distance(r[j].embedding, q)
        /\ \A x \in records : (\A i \in 1..k : r[i] # x) =>
               \A i \in 1..k : Distance(r[i].embedding, q) <= Distance(x.embedding, q)}

\* the raw responses collection.query may give: entry i is the document,
\* metadata and distance of the record ranked i; the index may hand back an
\* entry without its document text (None)
RawResponses(records, q, k) ==
    {[i \in 1..k |->
         [document |-> IF i \in missing THEN None ELSE Some(ranked[i].document),
          metadata |-> ranked[i].metadata,
          distance |-> Distance(ranked[i].embedding, q)]] :
        ranked \in Rankings(records, q, k), missing \in SUBSET (1..k)}

\* the reshaping loop with "if doc is not None" left out
ReshapeAll(results) ==
    [i \in 1..Len(results) |->
        [document |-> results[i].document.val, metadata |-> results[i].metadata,
         distance |-> results[i].distance]]

\* the loop that reshapes the raw response into processed_results: an entry
\* whose document is None is skipped
Reshape(results) ==
    LET kept == SelectSeq(results, LAMBDA e : ~e.document.none)
    IN  [i \in 1..Len(kept) |->
            [document |-> kept[i].document.val, metadata |-> kept[i].metadata,
             distance |-> kept[i].distance]]

\* query_store(name, query_embedding, top_k)
query_store(name, q, top_k, f) ==
    LET goc == get_or_create_collection(store, name, f)
        count == Cardinality(goc.store[name].records)
        n_results == Min(top_k, count)
        call == [op |-> "query", name |-> name, f |-> f, q |-> q, top_k |-> top_k,
                 before |-> store[name], n_results |-> n_results, raw |-> << >>]
    IN  /\ last = Idle
        /\ IF goc.raised
           THEN \* except: print("ERROR: Could not get or create ..."); return None
                /\ store' = store
                /\ last' = call @@ [ret |-> None, outcome |-> "unavailable"]
           ELSE /\ store' = goc.store
                /\ IF f = "count"
                   THEN last' = call @@ [ret |-> None, outcome |-> "unavailable"]
                   ELSE IF count = 0
                   THEN \* print("WARNING: ... is empty. Cannot query."); return []
                        last' = call @@ [ret |-> Some(<< >>), outcome |-> "empty"]
                   ELSE IF f = "query"
                   THEN last' = call @@ [ret |-> None, outcome |-> "unavailable"]
                   ELSE \E results \in RawResponses(goc.store[name].records, q, n_results) :
                            last' = [raw |-> results] @@ call @@
                                        [ret |-> Some(Reshape(results)),
                                         outcome |-> "results"]
    /\ UNCHANGED <<uuid_next, success_rets, chunkVars>>

\* the store manager called on its own, outside a command of main.py
Add(name, cs, embeddings, metadatas, doc_ids, f) ==
    /\ add_documents_to_store(name, cs, embeddings, metadatas, doc_ids, f)
    /\ UNCHANGED cmd

Reset(name, f) ==
    /\ reset_collection(name, f)
    /\ UNCHANGED cmd

Query(name, q, top_k, f) ==
    /\ query_store(name, q, top_k, f)
    /\ UNCHANGED cmd

\* the call is over: its caller goes on (the command ends, the store stays)
Return ==
    /\ last # Idle
    /\ last' = Idle
    /\ cmd' = NoCmd
    /\ UNCHANGED <<store, uuid_next, success_rets, chunkVars>>

----------------------------------------------------------------------------
(* The inputs of the store operations *)

EmbeddingLists(v) == {[i \in 1..m |-> Emb(v, i)] : m \in 0..MaxBatch}
MetaLists(v) == {None} \cup {Some([i \in 1..k |-> Meta(v, i)]) : k \in 0..(MaxBatch + 1)}
IdLists ==
    {None} \cup {Some([i \in 1..k |-> DocId(i - 1)]) : k \in 0..(MaxBatch + 1)}
           \cup {Some([i \in 1..k |-> DocId(0)]) : k \in 2..MaxBatch}
QueryEmbeddings == {0, 6}

\* what load hands to add for version v of the document cut into n chunks:
\* metadata and ids of every chunk, ids f"{filename}_{i}"
LoadMetas(v, n) == Some([i \in 1..n |-> Meta(v, i)])
LoadIds(n) == Some([i \in 1..n |-> DocId(i - 1)])

InitApp ==
    /\ APP_STATE = [chunk_size |-> DefaultChunkSize,
                    chunk_overlap |-> DefaultChunkOverlap,
                    top_k_retrieval |-> DefaultTopK]
    /\ cpc = "idle"
    /\ cfg_result = "none"
    /\ all_chunks = << >>
    /\ chunks = << >>
    /\ cont = << >>

InitStore ==
    /\ store = [name \in Names |-> Absent]
    /\ uuid_next = 0
    /\ last = Idle
    /\ success_rets = {}
    /\ cmd = NoCmd

Init ==
    /\ InitApp
    /\ text = << >>
    /\ InitStore

\* the store manager as main.py drives it, one call at a time: ids and
\* metadata of every chunk
Next ==
    \/ /\ last = Idle
       /\ \E name \in Names, v \in Versions, n \in 0..MaxBatch :
          \E embeddings \in EmbeddingLists(v), f \in AddFailures :
            Add(name, [i \in 1..n |-> Doc(v, i)], embeddings,
                LoadMetas(v, n), LoadIds(n), f)
    \/ /\ last = Idle
       /\ \E name \in Names, f \in ResetFailures : Reset(name, f)
    \/ /\ last = Idle
       /\ \E name \in Names, q \in QueryEmbeddings, top_k \in 1..MaxTopK,
             f \in QueryFailures :
            Query(name, q, top_k, f)
    \/ Return

Spec == Init /\ [][Next]_vars

----------------------------------------------------------------------------
(* One call of add_documents_to_store with any alignment of its arguments *)

\* a collection as an earlier add left it: n records of version v, under the
\* caller's ids or under uuid4 ids
Loaded(v, n, uuids) ==
    [active |-> TRUE,
     records |-> {[id |-> IF uuids THEN Uuid(i) ELSE DocId(i - 1),
                   embedding |-> Emb(v, i), document |-> Doc(v, i),
                   metadata |-> Meta(v, i)] : i \in 1..n}]

InitAdd ==
    /\ InitApp
    /\ text = << >>
    /\ last = Idle
    /\ success_rets = {}
    /\ cmd = NoCmd
    /\ \/ /\ store \in [Names -> {Absent, Fresh}]
          /\ uuid_next = 0
       \/ \E v \in Versions, n \in 1..MaxBatch, uuids \in BOOLEAN :
            /\ store \in [Names -> {Loaded(v, n, uuids)}]
            /\ uuid_next = IF uuids THEN n ELSE 0

NextAdd ==
    /\ last = Idle
    /\ \E name \in Names, v \in Versions, n \in 0..MaxBatch :
       \E embeddings \in EmbeddingLists(v), metadatas \in MetaLists(v),
          doc_ids \in IdLists, f \in AddFailures :
            Add(name, [i \in 1..n |-> Doc(v, i)], embeddings, metadatas, doc_ids, f)

SpecAdd == InitAdd /\ [][NextAdd]_vars

----------------------------------------------------------------------------
(* Actions of the chunker specification *)

InitChunk ==
    /\ InitApp
    /\ text \in Texts
    /\ InitStore

\* configure --chunk-size s --chunk-overlap o: the values are stored as given
Configure(s, o) ==
    /\ cpc = "idle"
    /\ APP_STATE' = [APP_STATE EXCEPT !.chunk_size = s, !.chunk_overlap = o]
    /\ cfg_result' = "accepted"
    /\ UNCHANGED <<text, cpc, all_chunks, chunks, cont, storeVars, cmd>>

\* chunks = simple_chunker(raw_text, chunk_size=APP_STATE[...], chunk_overlap=APP_STATE[...])
Chunk ==
    /\ cpc = "idle"
    /\ LET r == simple_chunker(text, APP_STATE.chunk_size, APP_STATE.chunk_overlap)
       IN  /\ cpc' = IF r.raised THEN "raised" ELSE "returned"
           /\ all_chunks' = r.all_chunks
           /\ chunks' = r.chunks
           /\ cont' = r.cont
    /\ UNCHANGED <<APP_STATE, text, cfg_result, storeVars, cmd>>

NextChunk ==
    \/ /\ cpc = "idle"
       /\ \E s \in 1..MaxChunkSize, o \in 0..MaxOverlap : Configure(s, o)
    \/ Chunk

SpecChunk == InitChunk /\ [][NextChunk]_vars

----------------------------------------------------------------------------
(* The commands of main.py: load, ask, configure, reset-collection *)

\* the content of the file a load command reads: nothing, a space, one short
\* paragraph, one longer paragraph, two paragraphs
LoadTexts ==
    {<< >>, <<SP>>, <<"a">>, <<"a", "b", "b">>, JoinParas(<<<<"b", "a">>, <<"a">>>>)}

\* what load_document may return: None (no file, unsupported type) or the text
ReadResults == {None} \cup {Some(t) : t \in LoadTexts}

\* the embedding collaborator: what get_embeddings returns for cs
EmbedText(c) == Len(c)
EmbedOutcomes == {"ok", "none", "short"}
get_embeddings(cs, e) ==
    IF cs = << >> THEN Some(<< >>)
    ELSE IF e = "none" THEN None
    ELSE IF e = "short" THEN Some([i \in 1..(Len(cs) - 1) |-> EmbedText(cs[i])])
    ELSE Some([i \in 1..Len(cs) |-> EmbedText(cs[i])])

\* "not x" for a list that may be None
Not(x) == x.none \/ x.val = << >>

\* a command that ended before it reached the store manager
Ended(c) ==
    /\ cmd' = c
    /\ UNCHANGED <<storeVars, chunkVars>>

\* load <filepath> --collection-name name
Load(name, key, raw_text, e, f) ==
    LET call == [op |-> "load", name |-> name, chunks |-> << >>, failed |-> "none",
                 generated |-> FALSE, queried |-> FALSE]
        exit1(step, msg) == [failed |-> step, message |-> msg, exit_code |-> 1] @@ call
        r == simple_chunker(raw_text.val, APP_STATE.chunk_size, APP_STATE.chunk_overlap)
        embeddings == get_embeddings(r.chunks, e)
        n == Len(r.chunks)
    IN  /\ cmd = NoCmd /\ last = Idle
        /\ IF ~key THEN Ended(exit1("key", "API Key Error"))
           ELSE IF Not(raw_text) THEN Ended(exit1("read", "Failed to load document"))
           ELSE IF r.raised THEN Ended(exit1("chunk", "Traceback"))
           ELSE IF r.chunks = << >>
           THEN Ended(exit1("chunk", "Failed to chunk document or document is empty"))
           ELSE IF Not(embeddings)
           THEN Ended([chunks |-> r.chunks] @@ exit1("embed", "Failed to generate embeddings"))
           ELSE /\ add_documents_to_store(name, r.chunks, embeddings.val,
                                          LoadMetas(1, n), LoadIds(n), f)
                /\ cmd' = IF last'.outcome = "exception"
                          THEN [chunks |-> r.chunks] @@ exit1("add", "Traceback")
                          ELSE [chunks |-> r.chunks,
                                failed |-> IF last'.outcome \in {"invalid", "index_error"}
                                           THEN "add" ELSE "none",
                                message |-> "processed and stored",
                                exit_code |-> 0] @@ call

\* the answer of the generation collaborator: a text, or None
Answers == {None, Some("answer")}

\* ask <query> --collection-name name [--top-k top_k]
Ask(name, key, query_embedding_list, top_k, f, answer) ==
    LET call == [op |-> "ask", name |-> name, chunks |-> << >>, failed |-> "none",
                 generated |-> FALSE, queried |-> FALSE]
        k == IF top_k.none THEN APP_STATE.top_k_retrieval ELSE top_k.val
    IN  /\ cmd = NoCmd /\ last = Idle
        /\ IF ~key
           THEN Ended([failed |-> "key", message |-> "API Key Error", exit_code |-> 1] @@ call)
           ELSE IF Not(query_embedding_list)
           THEN Ended([failed |-> "embed", message |-> "Failed to generate embedding",
                       exit_code |-> 1] @@ call)
           ELSE /\ query_store(name, query_embedding_list.val[1], k, f)
                /\ cmd' = IF Not(last'.ret)
                          THEN [queried |-> TRUE, exit_code |-> 0,
                                message |-> "No relevant context found"] @@ call
                          ELSE [queried |-> TRUE, generated |-> TRUE, exit_code |-> 0,
                                message |-> IF answer.none
                                            THEN "could not generate an answer"
                                            ELSE "InsightLens says"] @@ call

\* reset-collection name [--confirm]; without confirm the command ends with
\* exit code 1 (typer.echo is given fg, which it does not take)
ResetCommand(name, key, confirm, f) ==
    LET call == [op |-> "reset-collection", name |-> name, chunks |-> << >>,
                 failed |-> "none", generated |-> FALSE, queried |-> FALSE]
    IN  /\ cmd = NoCmd /\ last = Idle
        /\ IF ~key
           THEN Ended([failed |-> "key", message |-> "API Key Error", exit_code |-> 1] @@ call)
           ELSE IF ~confirm
           THEN Ended([failed |-> "confirm", message |-> "Traceback", exit_code |-> 1] @@ call)
           ELSE /\ reset_collection(name, f)
                /\ cmd' = [message |-> "has been reset", exit_code |-> 0] @@ call

\* configure --chunk-size s --chunk-overlap o, between two commands
ConfigureCommand(s, o) ==
    /\ cmd = NoCmd /\ last = Idle
    /\ APP_STATE' = [APP_STATE EXCEPT !.chunk_size = s, !.chunk_overlap = o]
    /\ cfg_result' = "accepted"
    /\ UNCHANGED <<text, cpc, all_chunks, chunks, cont, storeVars, cmd>>

\* the command is over and the next one may start
Exit ==
    /\ cmd # NoCmd
    /\ cmd' = NoCmd
    /\ last' = Idle
    /\ UNCHANGED <<store, uuid_next, success_rets, chunkVars>>

NextCli ==
    \/ /\ cmd = NoCmd
       /\ \E key \in BOOLEAN, raw_text \in ReadResults, e \in EmbedOutcomes,
             f \in AddFailures :
            Load(DEFAULT_COLLECTION_NAME, key, raw_text, e, f)
    \/ /\ cmd = NoCmd
       /\ \E key \in BOOLEAN, q \in {None} \cup {Some(<<e>>) : e \in QueryEmbeddings},
             top_k \in {None, Some(1)}, f \in QueryFailures, answer \in Answers :
            Ask(DEFAULT_COLLECTION_NAME, key, q, top_k, f, answer)
    \/ /\ cmd = NoCmd
       /\ \E key \in BOOLEAN, confirm \in BOOLEAN, f \in ResetFailures :
            ResetCommand(DEFAULT_COLLECTION_NAME, key, confirm, f)
    \/ /\ cmd = NoCmd
       /\ \E c \in CliConfigs : ConfigureCommand(c[1], c[2])
    \/ Exit

SpecCli == Init /\ [][NextCli]_vars

----------------------------------------------------------------------------
(* Properties of the chunker, checked under SpecChunk *)

Size == APP_STATE.chunk_size
Overlap == APP_STATE.chunk_overlap
Returned == cpc = "returned"
ReturnedValid == Returned /\ ValidConfig(Size, Overlap)

\* C1: with chunk_size > 0 and 0 <= chunk_overlap < chunk_size, every returned
\* chunk is non-empty, holds a character that is not whitespace, and is at most
\* chunk_size long.
C1_ChunksBounded ==
    ReturnedValid =>
        \A i \in 1..Len(chunks) :
            /\ chunks[i] # << >>
            /\ NonBlank(chunks[i])
            /\ Len(chunks[i]) <= Size

\* a valid run that hard-split a buffer and dropped a whitespace-only window
C1_Witness ==
    /\ ReturnedValid
    /\ Len(chunks) >= 2
    /\ Len(all_chunks) > Len(chunks)
    /\ \E i \in 1..Len(chunks) : Len(chunks[i]) = Size

\* C2: a configuration with chunk_overlap >= chunk_size never lets a chunker call
\* run: the call neither returns a chunk list nor fails part-way (ValueError from
\* range); it would have to be refused with ConfigurationError before that.
C2_OverlapRejected ==
    Overlap >= Size => cpc \notin {"returned", "raised"}

\* the windows the hard split of paragraph p is to give: window k (from 0) starts
\* at k * (chunk_size - chunk_overlap) and is min(chunk_size, L - start) long
ExpectedWindows(p, size, overlap) ==
    LET L == Len(p)
        stride == size - overlap
        n == (L + stride - 1) \div stride
    IN  [k \in 1..n |->
            LET start == (k - 1) * stride
            IN  SubSeq(p, start + 1, start + Min(size, L - start))]

\* ws is a run of consecutive entries of cs
OccursIn(ws, cs) ==
    \E d \in 0..(Len(cs) - Len(ws)) : SubSeq(cs, d + 1, d + Len(ws)) = ws

\* the paragraph of 2500 characters of the specification's example
LongParagraph == [i \in 1..2500 |-> IF i % 7 = 0 THEN "b" ELSE "a"]
LongExample == simple_chunker(LongParagraph, DefaultChunkSize, DefaultChunkOverlap)

\* C3: with a valid configuration every paragraph longer than chunk_size is
\* hard-split into exactly ceil(L / (chunk_size - chunk_overlap)) windows, window
\* k starting at k * (chunk_size - chunk_overlap) with length
\* min(chunk_size, L - start), in increasing order (before blank windows are
\* dropped); 2500 characters with 1000/150 give 3 windows at 0, 850 and 1700.
C3_HardSplitWindows ==
    /\ ReturnedValid =>
        LET ps == Paragraphs(text)
        IN  /\ \A j \in 1..Len(ps) :
                   Len(ps[j]) > Size =>
                       OccursIn(ExpectedWindows(ps[j], Size, Overlap), all_chunks)
            /\ (Len(ps) = 1 /\ Len(ps[1]) > Size) =>
                   all_chunks = ExpectedWindows(ps[1], Size, Overlap)
    /\ LongExample.all_chunks = <<SubSeq(LongParagraph, 1, 1000),
                                  SubSeq(LongParagraph, 851, 1850),
                                  SubSeq(LongParagraph, 1701, 2500)>>

\* a hard split with overlapping windows and a short last window
C3_Witness ==
    /\ ReturnedValid
    /\ Overlap > 0
    /\ Len(Paragraphs(text)) = 1
    /\ Len(Paragraphs(text)[1]) > Size
    /\ Len(all_chunks) >= 3
    /\ Len(all_chunks[Len(all_chunks)]) < Size

\* C4 as claimed: for a fixed chunk_overlap the number of returned chunks does
\* not grow when chunk_size grows.
C4_CountMonotone ==
    ReturnedValid =>
        \A s2 \in (Size + 1)..MaxChunkSize :
            Len(chunks) >= Len(simple_chunker(text, s2, Overlap).chunks)

\* C4 amended: the number of chunks before whitespace-only chunks are dropped
\* does not grow when chunk_size grows.
C4_RawCountMonotone ==
    ReturnedValid =>
        \A s2 \in (Size + 1)..MaxChunkSize :
            Len(all_chunks) >= Len(simple_chunker(text, s2, Overlap).all_chunks)

\* a text that gives strictly more chunks at the smaller size, hard split included
C4_Witness ==
    /\ ReturnedValid
    /\ Len(Paragraphs(text)) >= 2
    /\ \E j \in 1..Len(Paragraphs(text)) : Len(Paragraphs(text)[j]) > Size
    /\ \E s2 \in (Size + 1)..MaxChunkSize :
           /\ Len(all_chunks) > Len(simple_chunker(text, s2, Overlap).all_chunks)
           /\ Len(simple_chunker(text, s2, Overlap).all_chunks) >= 2

\* the characters of s that are not whitespace, in order
NonWs(s) == SelectSeq(s, LAMBDA c : ~IsWs(c))

RECURSIVE Flatten(_)
Flatten(ss) == IF ss = << >> THEN << >> ELSE Head(ss) \o Flatten(Tail(ss))

\* chunk i without the prefix it shares with the window before it
FreshPart(i) ==
    IF cont[i]
    THEN SubSeq(chunks[i], Min(Overlap, Len(chunks[i])) + 1, Len(chunks[i]))
    ELSE chunks[i]

\* C5: with a valid configuration the returned chunks, each without the prefix
\* that overlaps the previous window, concatenate to the text's characters that
\* are not whitespace, in their original order; the empty text gives no chunk;
\* a single paragraph of trimmed length <= chunk_size gives that one chunk.
C5_NothingLost ==
    ReturnedValid =>
        /\ NonWs(Flatten([i \in 1..Len(chunks) |-> FreshPart(i)])) = NonWs(text)
        /\ (text = << >> => chunks = << >>)
        /\ (Len(Paragraphs(text)) = 1 /\ Len(Strip(text)) <= Size) =>
               chunks = <<Strip(text)>>

\* several paragraphs with both letters, one of them hard-split with overlap
C5_Witness ==
    /\ ReturnedValid
    /\ Overlap > 0
    /\ Len(Paragraphs(text)) >= 2
    /\ \E i \in 1..Len(chunks) : cont[i]
    /\ \E i \in 1..Len(text) : text[i] = "b"
    /\ \E i \in 1..Len(text) : text[i] = "a"

----------------------------------------------------------------------------
(* Properties of the vector store manager *)

IsAdd == last # Idle /\ last.op = "add"
IsQuery == last # Idle /\ last.op = "query"
IsReset == last # Idle /\ last.op = "reset"

\* the add call got as far as handing a write to the index
GaveWrite == IsAdd /\ last.outcome \in {"written", "written_then_error", "index_error"}

\* the records the write of the call in progress describes
WrittenBatch ==
    {[id |-> last.w_ids[i], embedding |-> last.embeddings[i],
      document |-> last.chunks[i], metadata |-> last.w_metas[i]] : i \in 1..last.n}

UniqueIds(records) == \A r1, r2 \in records : r1.id = r2.id => r1 = r2

\* C6: ids stay unique in every collection; after an add that wrote, every
\* record of the batch is in the collection with the new embedding, text and
\* metadata (an existing id is overwritten), and the record count grew by the
\* number of ids that were not there before.
C6_AddsAreUpserts ==
    /\ \A name \in Names : UniqueIds(store[name].records)
    /\ (IsAdd /\ last.outcome = "written") =>
           /\ WrittenBatch \subseteq store[last.name].records
           /\ Cardinality(store[last.name].records) =
                  Cardinality(last.before.records)
                  + Cardinality(IdsOf(WrittenBatch) \ IdsOf(last.before.records))

\* C7: an add with empty chunks, empty embeddings or different lengths writes
\* nothing, leaves the collection as it was (Absent stays Absent), raises nothing,
\* and returns something no add that wrote has returned.
C7_InvalidAddReported ==
    (IsAdd /\ (last.n = 0 \/ last.m = 0 \/ last.n # last.m)) =>
        /\ last.outcome = "invalid"
        /\ last.w_ids = << >>
        /\ store[last.name] = last.before
        /\ last.ret \notin success_rets

C9_ResetLeavesAbsent ==
    /\ IsReset => (last.ret = None /\ store[last.name] = Absent)
    /\ (IsAdd /\ ~last.before.active /\ last.outcome = "written") =>
           store[last.name].records = WrittenBatch
    /\ ((IsAdd \/ IsQuery) /\ last.before.active) => store[last.name].active

\* C10: while the store works, a query on a collection without records (Absent,
\* or Active and empty) returns the empty list, not None; an Absent collection
\* is Active and empty afterwards, and an Active empty one is left as it was.
C10_QueryOnEmpty ==
    (IsQuery /\ last.f = "none" /\ last.before.records = {}) =>
        /\ last.ret = Some(<< >>)
        /\ last.outcome = "empty"
        /\ store[last.name] = Fresh
        /\ last.before.active => store[last.name] = last.before

\* a query on a collection that did not exist yet
C10_Witness ==
    /\ IsQuery
    /\ last.f = "none"
    /\ last.before = Absent
    /\ last.ret = Some(<< >>)

\* entry e of the result list is entry r of the raw response, reshaped
SameEntry(e, r) ==
    /\ ~r.document.none
    /\ e.document = r.document.val
    /\ e.metadata = r.metadata
    /\ e.distance = r.distance

\* C11: while the store works, a query with top_k >= 1 on a collection of
\* n >= 1 records asks the index for min(top_k, n) neighbours and returns at most
\* that many results, closest first; the results are the entries of the raw
\* response that have a document text, in the order of the response, each once,
\* and each is a record of the collection with its distance to the query.
C11_TopKRanked ==
    (IsQuery /\ last.f = "none" /\ last.top_k >= 1 /\ last.before.records # {}) =>
        LET n == Cardinality(last.before.records)
            k == Min(last.top_k, n)
            raw == last.raw
            ret == last.ret.val
        IN  /\ last.outcome = "results"
            /\ last.n_results = k
            /\ ~last.ret.none
            /\ Len(ret) <= k
            /\ \A i, j \in 1..Len(ret) : i < j => ret[i].distance <= ret[j].distance
            /\ \E g \in [1..Len(ret) -> 1..Len(raw)] :
                   /\ \A i, j \in 1..Len(ret) : i < j => g[i] < g[j]
                   /\ \A i \in 1..Len(ret) : SameEntry(ret[i], raw[g[i]])
                   /\ \A p \in 1..Len(raw) :
                          (\A i \in 1..Len(ret) : g[i] # p) => raw[p].document.none
            /\ \A i \in 1..Len(ret) :
                   \E r \in last.before.records :
                       /\ r.document = ret[i].document
                       /\ r.metadata = ret[i].metadata
                       /\ Distance(r.embedding, last.q) = ret[i].distance

\* top_k = 4 on a collection of 3 records: 3 entries asked for, the middle one
\* without its text, the two others returned at different distances
C11_Witness ==
    /\ IsQuery
    /\ last.outcome = "results"
    /\ last.top_k = 4
    /\ Cardinality(last.before.records) = 3
    /\ Len(last.raw) = 3
    /\ last.raw[2].document.none
    /\ Len(last.ret.val) = 2
    /\ last.ret.val[1].distance < last.ret.val[2].distance

----------------------------------------------------------------------------
(* Properties of the commands, checked under SpecCli *)

IsAsk == cmd.op = "ask" /\ cmd.queried
IsLoad == cmd.op = "load"

\* what ask tells the user when the query came back empty
EmptyGuidance == "No relevant context found"

\* C12: a query whose collection or index operation failed returns the
\* 'unavailable' result (None), which is not the empty list it returns for an
\* empty collection; ask does not call the generation collaborator after either
\* result; and after 'unavailable' ask tells the user something else than what
\* it tells after 'empty'.
C12_UnavailableDistinguished ==
    /\ (IsQuery /\ last.f # "none" /\ last.outcome = "unavailable") =>
           (last.ret = None /\ last.ret # Some(<< >>))
    /\ (IsQuery /\ last.outcome = "empty") => last.ret = Some(<< >>)
    /\ (IsAsk /\ last.outcome \in {"unavailable", "empty"}) => ~cmd.generated
    /\ (IsAsk /\ last.outcome = "empty") => cmd.message = EmptyGuidance
    /\ (IsAsk /\ last.outcome = "unavailable") => cmd.message # EmptyGuidance

\* the chunks of the loaded document are in the collection, chunk i under the
\* id of position i
AllChunksStored ==
    \A i \in 1..Len(cmd.chunks) :
        \E r \in store[cmd.name].records :
            r.id = DocId(i - 1) /\ r.document = cmd.chunks[i]

\* C13: a load in which a step failed (key, read, chunk, embed, or the add:
\* refused as invalid, raising, or ending in an index error) ends with a failure
\* message and exit code 1; and the success outcome ('processed and stored',
\* exit code 0) is reached only with every chunk of the document written to the
\* collection.
C13_LoadSuccessMeansStored ==
    IsLoad =>
        /\ cmd.failed # "none" =>
               (cmd.exit_code = 1 /\ cmd.message # "processed and stored")
        /\ (cmd.exit_code = 0 \/ cmd.message = "processed and stored") =>
               (cmd.chunks # << >> /\ AllChunksStored)

====
